---- MODULE Spec2Model ----
(***************************************************************************)
(* LogFolderProcessor: the FileProcessor component (path normalisation,    *)
(* the ZIP and TAR entry resolvers, processFiles) and the App state it     *)
(* reports to.  Strings are sequences of one-character strings, so that    *)
(* normalisation, splitting and substring tests are computed, not assumed. *)
(***************************************************************************)
EXTENDS Integers, Sequences, FiniteSets, Bags, TLC

\* ------------------------------------------------------------------ bounds

\* The longest archive listing the resolver calls are checked on.
MaxEntries == 2

\* The number of times the user picks a file, and clicks Process Files.
MaxSelections == 3
MaxRuns == 2

\* The number of pieces a path handed to normalizeFilePath or determineOperation
\* is made of.
MaxPieces == 4

\* The number of entries of a ZIP file handed to buildFileTree.
MaxTreeEntries == 3

\* The number of times the user acts on the Batch ID modal (opening it, typing,
\* cancelling, pressing Download).
MaxModalSteps == 3

\* ------------------------------------------------------- strings (JS semantics)

SLASH == "/"
BACKSLASH == "\\"

\* JavaScript's undefined, as read from an array index out of range.
Undefined == <<"undefined">>

\* The index of the first c in s at or after position i, or 0.
RECURSIVE IndexFrom(_, _, _)
IndexFrom(s, c, i) ==
  IF i > Len(s) THEN 0
  ELSE IF s[i] = c THEN i
  ELSE IndexFrom(s, c, i + 1)

\* A mutation of ReplaceBackslashes: replace('\\', '/'), the first backslash only.
ReplaceFirstBackslash(path) ==
  [i \in 1..Len(path) |->
     IF path[i] = BACKSLASH /\ \A j \in 1..(i - 1) : path[j] # BACKSLASH
       THEN SLASH ELSE path[i]]

\* path.replace(/\\/g, '/')
ReplaceBackslashes(path) ==
  [i \in 1..Len(path) |-> IF path[i] = BACKSLASH THEN SLASH ELSE path[i]]

\* A mutation of StripLeadingSlashes: replace(/^\//, ''), one leading slash only.
StripOneLeadingSlash(path) ==
  IF path # <<>> /\ Head(path) = SLASH THEN Tail(path) ELSE path

\* path.replace(/^\/+/, '')
RECURSIVE StripLeadingSlashes(_)
StripLeadingSlashes(path) ==
  IF path # <<>> /\ Head(path) = SLASH
    THEN StripLeadingSlashes(Tail(path))
    ELSE path

\* path.replace(/\/+/g, '/')
RECURSIVE CollapseSlashes(_)
CollapseSlashes(path) ==
  IF Len(path) < 2 THEN path
  ELSE IF path[1] = SLASH /\ path[2] = SLASH
    THEN CollapseSlashes(Tail(path))
    ELSE <<Head(path)>> \o CollapseSlashes(Tail(path))

normalizeFilePath(path) ==
  CollapseSlashes(StripLeadingSlashes(ReplaceBackslashes(path)))

\* String.prototype.split('/'): "" splits to [""], "a/" to ["a", ""].
RECURSIVE Split(_)
Split(s) ==
  LET i == IndexFrom(s, SLASH, 1)
  IN IF i = 0 THEN <<s>>
     ELSE <<SubSeq(s, 1, i - 1)>> \o Split(SubSeq(s, i + 1, Len(s)))

\* arr[idx] with a 0-based index: undefined out of range.
At(arr, idx) ==
  IF idx >= 0 /\ idx < Len(arr) THEN arr[idx + 1] ELSE Undefined

\* Array.prototype.find: the index, from i on, of the first element whose test
\* is true, or 0; tests[k] is the outcome of the callback on element k.
RECURSIVE FindFrom(_, _)
FindFrom(tests, i) ==
  IF i > Len(tests) THEN 0
  ELSE IF tests[i] THEN i
  ELSE FindFrom(tests, i + 1)

\* ---------------------------------------------------------------- resolvers

\* A mutation of MatchFromEnd: only the last segment is compared.
MatchFromEndLastOnly(parts, searchParts) ==
  At(parts, Len(parts) - 1) = At(searchParts, Len(searchParts) - 1)

\* A mutation of MatchFromEnd: only the segments both paths have are compared.
MatchFromEndOverShorter(parts, searchParts) ==
  LET n == IF Len(parts) < Len(searchParts) THEN Len(parts) ELSE Len(searchParts)
  IN \A i \in 1..n :
        At(parts, Len(parts) - i) = At(searchParts, Len(searchParts) - i)

\* The loop "for (let i = 1; i <= searchParts.length; i++)" of both resolvers.
MatchFromEnd(parts, searchParts) ==
  \A i \in 1..Len(searchParts) :
     At(parts, Len(parts) - i) = At(searchParts, Len(searchParts) - i)

\* JSZip keeps a directory under a key ending in '/'.
IsDir(name) == name # <<>> /\ name[Len(name)] = SLASH

\* zip.file(name): the entry stored under exactly that key, unless it is a
\* directory; files is Object.keys(zip.files), result an index into it or 0.
ZipFile(files, name) ==
  LET i == FindFrom([k \in 1..Len(files) |-> files[k] = name], 1)
  IN IF i # 0 /\ ~IsDir(files[i]) THEN i ELSE 0

findFileInZip(files, searchPath) ==
  LET normalizedSearchPath == normalizeFilePath(searchPath)
      file == ZipFile(files, normalizedSearchPath)
      allFiles == [i \in 1..Len(files) |-> normalizeFilePath(files[i])]
      searchParts == Split(normalizedSearchPath)
      m == FindFrom([k \in 1..Len(allFiles) |-> MatchFromEnd(Split(allFiles[k]), searchParts)], 1)
  IN IF file # 0 THEN file
     \* "matchingFile ? ... : null": an empty matching name is falsy too.
     ELSE IF m # 0 /\ allFiles[m] # <<>> THEN ZipFile(files, allFiles[m])
     ELSE 0

\* entries is the sequence of names tarReader.next() yields; the result is the
\* index of the entry whose buffer is returned, or 0.
RECURSIVE TarScan(_, _, _)
TarScan(entries, searchParts, i) ==
  IF i > Len(entries) THEN 0
  ELSE IF entries[i] = <<>> THEN TarScan(entries, searchParts, i + 1)
  ELSE IF MatchFromEnd(Split(normalizeFilePath(entries[i])), searchParts) THEN i
  ELSE TarScan(entries, searchParts, i + 1)

findFileInTar(entries, searchPath) ==
  TarScan(entries, Split(normalizeFilePath(searchPath)), 1)

\* ------------------------------------------------- helpers of the component

Uppers == <<"A", "B", "C", "D", "E", "F", "G", "H", "I", "J", "K", "L", "M",
            "N", "O", "P", "Q", "R", "S", "T", "U", "V", "W", "X", "Y", "Z">>
Lowers == <<"a", "b", "c", "d", "e", "f", "g", "h", "i", "j", "k", "l", "m",
            "n", "o", "p", "q", "r", "s", "t", "u", "v", "w", "x", "y", "z">>

\* String.prototype.toLowerCase
ToLowerCase(s) ==
  [i \in 1..Len(s) |->
     IF \E k \in 1..Len(Uppers) : Uppers[k] = s[i]
       THEN Lowers[CHOOSE k \in 1..Len(Uppers) : Uppers[k] = s[i]]
       ELSE s[i]]

\* String.prototype.includes
Includes(s, sub) ==
  \E i \in 1..(Len(s) - Len(sub) + 1) : SubSeq(s, i, i + Len(sub) - 1) = sub

\* String.prototype.endsWith
EndsWith(s, suffix) ==
  /\ Len(s) >= Len(suffix)
  /\ SubSeq(s, Len(s) - Len(suffix) + 1, Len(s)) = suffix

\* A mutation of determineOperation: the link is not lower-cased and only
\* 'update' is looked for.
determineOperationUpdateOnly(link) ==
  IF Includes(link, <<"u", "p", "d", "a", "t", "e">>) THEN "update" ELSE "insert"

determineOperation(link) ==
  LET lowerLink == ToLowerCase(link)
  IN IF \/ Includes(lowerLink, <<"u", "p", "d", "a", "t", "e">>)
        \/ Includes(lowerLink, <<"m", "o", "d", "i", "f", "y">>)
       THEN "update" ELSE "insert"

\* link.split('/').pop() || link
FileNameOf(link) ==
  LET parts == Split(link)
      last == parts[Len(parts)]
  IN IF last # <<>> THEN last ELSE link

\* isValidArchive without the lower-casing of the name
isValidArchiveCaseSensitive(file) ==
  \/ file.type = "application/zip"
  \/ file.type = "application/x-zip-compressed"
  \/ file.type = "application/x-tar"
  \/ EndsWith(file.name, <<".", "z", "i", "p">>)
  \/ EndsWith(file.name, <<".", "t", "a", "r">>)

isValidArchive(file) ==
  LET fileName == ToLowerCase(file.name)
  IN \/ file.type = "application/zip"
     \/ file.type = "application/x-zip-compressed"
     \/ file.type = "application/x-tar"
     \/ EndsWith(fileName, <<".", "z", "i", "p">>)
     \/ EndsWith(fileName, <<".", "t", "a", "r">>)

isTarFile(file) ==
  \/ EndsWith(ToLowerCase(file.name), <<".", "t", "a", "r">>)
  \/ file.type = "application/x-tar"

\* ------------------------------------------------------------ resolver calls

\* Raw entry names, as stored in an archive: plain, nested, with a backslash,
\* with a leading or a doubled slash, a directory, and a name that ends with
\* the letter of another without sharing its last segment.
EntryNames ==
  { <<"a">>,
    <<"x", "/", "a">>,
    <<"y", "/", "x", "/", "a">>,
    <<"x", "\\", "a">>,
    <<"/", "a">>,
    <<"x", "/", "/", "a">>,
    <<"x", "/">>,
    <<"x", "a">>,
    <<"b">> }

\* Links of a configuration.
SearchPaths ==
  { <<"a">>,
    <<"x", "/", "a">>,
    <<"\\", "x", "\\", "a">>,
    <<"y", "/", "x", "/", "a">>,
    <<"z", "/", "x", "/", "a">>,
    <<"x", "/">>,
    <<"c">>,
    <<>> }

\* The sequences over S of length at most n.
RECURSIVE SeqsUpTo(_, _)
SeqsUpTo(S, n) ==
  IF n = 0 THEN {<<>>}
  ELSE LET shorter == SeqsUpTo(S, n - 1)
       IN shorter \cup {Append(s, x) : s \in shorter, x \in S}

Distinct(s) == \A i, j \in 1..Len(s) : i # j => s[i] # s[j]

Listings == SeqsUpTo(EntryNames, MaxEntries)

\* ------------------------------------------------------ files the user can pick

Null == [null |-> TRUE]
NoError == "<null>"
NoName == "<undefined>"

UpdateFile == <<"f", "/", "u", "p", "d", "a", "t", "e">>
OtherFileEntry == <<"x", "/", "o", "/", "b">>
OtherFile == <<"o", "/", "b">>
MissingFile == <<"z", "z">>
\* o\b: a link written with a backslash, which normalizes to o/b
BackslashFile == <<"o", "\\", "b">>
\* y/b: an entry, and a link, whose last segment is that of o/b
SameNameFile == <<"y", "/", "b">>

NoLinks == [tag |-> "undefined", items |-> <<>>]
NumberLinks == [tag |-> "number", items |-> <<>>]
LinkArray(items) == [tag |-> "array", items |-> items]

\* An element of the configuration array: a non-object (a number, null), or
\* an object with its "Review Test", "Review Text" and Links properties.
NonObject ==
  [isObject |-> FALSE, ReviewTest |-> NoName, ReviewText |-> NoName, Links |-> NoLinks]
ConfigObject(reviewTest, reviewText, links) ==
  [isObject |-> TRUE, ReviewTest |-> reviewTest, ReviewText |-> reviewText, Links |-> links]

NoZip == [ok |-> FALSE, entries |-> <<>>]
NoJson == [isArray |-> FALSE, items |-> <<>>]

\* a.zip: folder/update_file.txt and x/other/file2.txt of the example, shortened,
\* and y/b.
ZipA ==
  [name |-> <<"a", ".", "z", "i", "p">>, type |-> "application/zip",
   zip |-> [ok |-> TRUE,
            entries |-> << [name |-> UpdateFile, content |-> "c1", size |-> 3],
                           [name |-> OtherFileEntry, content |-> "c2", size |-> 0],
                           [name |-> SameNameFile, content |-> "c3", size |-> 3] >>],
   json |-> NoJson]

\* b.tar: accepted by isValidArchive, and no ZIP to JSZip.loadAsync.
TarB ==
  [name |-> <<"b", ".", "t", "a", "r">>, type |-> "application/x-tar",
   zip |-> NoZip, json |-> NoJson]

TextFile ==
  [name |-> <<"n", ".", "t", "x", "t">>, type |-> "text/plain",
   zip |-> NoZip, json |-> NoJson]

JsonFile(name, value) ==
  [name |-> name, type |-> "application/json", zip |-> NoZip, json |-> value]

\* [{"Review Test": "GroupA", "Links": [update, other]}]
JsonExample ==
  JsonFile(<<"1">>,
    [isArray |-> TRUE,
     items |-> << ConfigObject("GroupA", NoName, LinkArray(<<UpdateFile, OtherFile>>)) >>])

\* [7, {"Review Text": "G", "Links": [update, missing]}, {"Review Text": "H", "Links": [o\b]}]
JsonTwoGroups ==
  JsonFile(<<"2">>,
    [isArray |-> TRUE,
     items |-> << NonObject,
                  ConfigObject(NoName, "G", LinkArray(<<UpdateFile, MissingFile>>)),
                  ConfigObject(NoName, "H", LinkArray(<<BackslashFile>>)) >>])

\* [{"Links": [other]}, {"Review Text": "K"}, {"Review Text": "H", "Links": 5},
\*  {"Review Text": "G", "Links": [update]}]
JsonBadLinks ==
  JsonFile(<<"3">>,
    [isArray |-> TRUE,
     items |-> << ConfigObject(NoName, NoName, LinkArray(<<OtherFile>>)),
                  ConfigObject(NoName, "K", NoLinks),
                  ConfigObject(NoName, "H", NumberLinks),
                  ConfigObject(NoName, "G", LinkArray(<<UpdateFile>>)) >>])

\* {}
JsonNotArray == JsonFile(<<"4">>, NoJson)

\* [{"Review Text": "G", "Links": ["o/b", "y/b"]}]: two links that resolve to
\* two entries, and have one file name.
JsonSameName ==
  JsonFile(<<"5">>,
    [isArray |-> TRUE,
     items |-> << ConfigObject(NoName, "G", LinkArray(<<OtherFile, SameNameFile>>)) >>])

ArchiveChoices == {ZipA, TarB, TextFile}
JsonChoices == {JsonExample, JsonTwoGroups, JsonBadLinks, JsonNotArray, JsonSameName, TextFile}

\* ------------------------------------------------------------- buildFileTree

\* The tree is kept flat: a node is its path from the top (a sequence of
\* names), and the children of a node are the nodes one name longer, in the
\* order they were pushed.
NoLevel == <<Undefined>>

HasNode(tree, path) == \E k \in 1..Len(tree) : tree[k].path = path
NodeAt(tree, path) == tree[CHOOSE k \in 1..Len(tree) : tree[k].path = path]

\* A mutation of JoinPath: no separator is put between the parts.
JoinPathWithoutSeparator(currentPath, part) == currentPath \o part

\* currentPath += (currentPath ? '/' : '') + part
JoinPath(currentPath, part) ==
  currentPath \o (IF currentPath # <<>> THEN <<SLASH>> ELSE <<>>) \o part

\* processNode(path, tree): the loop over the parts of one entry path.
\* level is the path of the folder whose children currentLevel is; a node
\* keeps, as currentPath, the text the code stores as its path.
RECURSIVE WalkParts(_, _, _, _, _, _, _)
WalkParts(tree, parts, i, level, currentPath, endsWithSlash, size) ==
  IF i > Len(parts) THEN [ok |-> TRUE, tree |-> tree]
  ELSE IF parts[i] = <<>>
    THEN WalkParts(tree, parts, i + 1, level, currentPath, endsWithSlash, size)
  \* currentLevel is undefined: currentLevel.find throws a TypeError
  ELSE IF level = NoLevel THEN [ok |-> FALSE, tree |-> tree]
  ELSE
    LET isFile == i = Len(parts) /\ ~endsWithSlash
        path == Append(level, parts[i])
        joined == JoinPath(currentPath, parts[i])
        found == HasNode(tree, path)
        node == IF found THEN NodeAt(tree, path)
                ELSE [path |-> path,
                      currentPath |-> joined,
                      type |-> IF isFile THEN "file" ELSE "folder",
                      size |-> IF isFile THEN size ELSE 0]
        pushed == IF found THEN tree ELSE Append(tree, node)
        next == IF isFile THEN level
                ELSE IF node.type = "folder" THEN path ELSE NoLevel
    IN WalkParts(pushed, parts, i + 1, next, joined, endsWithSlash, size)

\* "for (const path of files) await processNode(path, tree)"
RECURSIVE InsertEntries(_, _, _)
InsertEntries(tree, entries, k) ==
  IF k > Len(entries) THEN [ok |-> TRUE, tree |-> tree]
  ELSE
    LET e == entries[k]
        r == WalkParts(tree, Split(e.name), 1, <<>>, <<>>,
                       EndsWith(e.name, <<SLASH>>), e.size)
    IN IF r.ok THEN InsertEntries(r.tree, entries, k + 1) ELSE r

IsProperPrefix(p, q) == Len(p) < Len(q) /\ SubSeq(q, 1, Len(p)) = p

\* node.children: the nodes one name below path
ChildrenOf(tree, path) ==
  {k \in 1..Len(tree) : Len(tree[k].path) = Len(path) + 1 /\ IsProperPrefix(path, tree[k].path)}

AddStats(a, b) ==
  [empty |-> a.empty + b.empty, nonEmpty |-> a.nonEmpty + b.nonEmpty,
   total |-> a.total + b.total]

\* A mutation of CountNode: a folder met among the children is not entered.
CountNodeNotEntering(tree, k) ==
  IF tree[k].type = "file"
    THEN [empty |-> IF tree[k].size = 0 THEN 1 ELSE 0,
          nonEmpty |-> IF tree[k].size = 0 THEN 0 ELSE 1, total |-> 1]
    ELSE [empty |-> 0, nonEmpty |-> 0, total |-> 0]

\* updateFolderStats, the inner processNode(n): a file counts for one, a
\* folder for what n.children.forEach(processNode) counts.
RECURSIVE CountNode(_, _), CountNodes(_, _)
CountNode(tree, k) ==
  IF tree[k].type = "file"
    THEN [empty |-> IF tree[k].size = 0 THEN 1 ELSE 0,
          nonEmpty |-> IF tree[k].size = 0 THEN 0 ELSE 1, total |-> 1]
    ELSE CountNodes(tree, ChildrenOf(tree, tree[k].path))

CountNodes(tree, nodes) ==
  IF nodes = {} THEN [empty |-> 0, nonEmpty |-> 0, total |-> 0]
  ELSE LET k == CHOOSE n \in nodes : TRUE
       IN AddStats(CountNode(tree, k), CountNodes(tree, nodes \ {k}))

\* updateFolderStats(node): node.children.forEach(processNode)
FileStatsOf(tree, path) == CountNodes(tree, ChildrenOf(tree, path))

NoStats == [empty |-> 0, nonEmpty |-> 0, total |-> 0]

WithFolderStats(tree) ==
  [k \in 1..Len(tree) |->
     [path |-> tree[k].path, currentPath |-> tree[k].currentPath,
      type |-> tree[k].type, size |-> tree[k].size,
      fileStats |-> IF tree[k].type = "folder"
                      THEN FileStatsOf(tree, tree[k].path) ELSE NoStats]]

\* ------------------------------------------------------------------- state

VARIABLES
  listing,      \* resolver call: the archive's entry names, in listing order
  searchPath,   \* resolver call: the link searched for
  resolved,     \* resolver call: which resolver ran, and the entry it returned
  status,       \* App: idle, processing, success or error
  error,        \* App: the message shown, or NoError
  archiveFile,  \* FileProcessor state
  jsonFile,
  processedZip,
  debug,        \* debugInfo: the lines logged, each with the times it was logged;
                \* the order in which the lines of two runs mix is not kept
  folderStats,
  fileTree,
  runs,         \* the processFiles calls made so far, each with its locals
  builds,       \* the buildFileTree calls still awaiting JSZip.loadAsync
  selections,   \* how many files the user has picked so far
  rawPath,      \* call of a pure function: its argument
  normalized,   \* the results of normalizeFilePath on rawPath, and on its own result
  classified,   \* the result of determineOperation on rawPath
  zipEntries,   \* call of buildFileTree: the entries of the ZIP file, in order
  batchId,          \* FileProcessor state: the text of the Batch ID input
  showBatchIdModal, \* FileProcessor state
  downloaded,       \* the browser: the files saved through a.click(), in order
  modalSteps        \* how many times the user has acted on the Batch ID modal

resolverVars == <<listing, searchPath, resolved>>
appVars == <<status, error>>
stateVars == <<archiveFile, jsonFile, processedZip, debug, folderStats, fileTree>>
pureVars == <<rawPath, normalized, classified, zipEntries>>
downloadVars == <<batchId, showBatchIdModal, downloaded, modalSteps>>
vars == <<resolverVars, appVars, stateVars, runs, builds, selections, pureVars, downloadVars>>

NotCalled == [by |-> "none", result |-> 0]

InitComponent ==
  /\ status = "idle"
  /\ error = NoError
  /\ archiveFile = Null
  /\ jsonFile = Null
  /\ processedZip = Null
  /\ debug = EmptyBag
  /\ folderStats = <<>>
  /\ fileTree = <<>>
  /\ runs = <<>>
  /\ builds = <<>>
  /\ selections = 0
  /\ batchId = <<>>
  /\ showBatchIdModal = FALSE
  /\ downloaded = <<>>
  /\ modalSteps = 0

NotClassified == "<none>"

InitPure ==
  /\ rawPath = <<>>
  /\ normalized = <<>>
  /\ classified = NotClassified
  /\ zipEntries = <<>>

\* ------------------------------------------------- specification of the resolvers

InitResolver ==
  /\ listing \in Listings
  /\ searchPath \in SearchPaths
  /\ resolved = NotCalled
  /\ InitComponent
  /\ InitPure

\* zip.files is keyed by name: a ZIP listing holds no name twice.
CallFindFileInZip ==
  /\ resolved = NotCalled
  /\ Distinct(listing)
  /\ resolved' = [by |-> "zip", result |-> findFileInZip(listing, searchPath)]
  /\ UNCHANGED <<listing, searchPath, pureVars, appVars, stateVars, runs, builds, selections, downloadVars>>

CallFindFileInTar ==
  /\ resolved = NotCalled
  /\ resolved' = [by |-> "tar", result |-> findFileInTar(listing, searchPath)]
  /\ UNCHANGED <<listing, searchPath, pureVars, appVars, stateVars, runs, builds, selections, downloadVars>>

NextResolver == CallFindFileInZip \/ CallFindFileInTar

SpecResolver == InitResolver /\ [][NextResolver]_vars

\* ------------------------------------- specification of the pure path functions

\* What paths and links are made of: names, the two separators, a doubled
\* slash, and the words determineOperation looks for, whole, split and in
\* upper case.
Pieces ==
  { <<"x">>, <<"/">>, <<"\\">>, <<"/", "/">>,
    <<"u", "p", "d", "a", "t", "e">>, <<"M", "o", "d", "i", "f", "y">>,
    <<"u", "p">>, <<"d", "a", "t", "e">> }

\* The concatenations of at most n pieces.
RECURSIVE PathsOf(_)
PathsOf(n) ==
  IF n = 0 THEN {<<>>}
  ELSE LET shorter == PathsOf(n - 1)
       IN shorter \cup {s \o piece : s \in shorter, piece \in Pieces}

Paths == PathsOf(MaxPieces)

InitPaths ==
  /\ rawPath \in Paths
  /\ normalized = <<>>
  /\ classified = NotClassified
  /\ zipEntries = <<>>
  /\ listing = <<>>
  /\ searchPath = <<>>
  /\ resolved = NotCalled
  /\ InitComponent

CallNormalizeFilePath ==
  /\ normalized = <<>>
  /\ normalized' = <<normalizeFilePath(rawPath)>>
  /\ UNCHANGED <<rawPath, classified, zipEntries, resolverVars, appVars, stateVars, runs, builds, selections, downloadVars>>

\* normalizeFilePath on a path it returned
CallNormalizeFilePathAgain ==
  /\ Len(normalized) = 1
  /\ normalized' = Append(normalized, normalizeFilePath(normalized[1]))
  /\ UNCHANGED <<rawPath, classified, zipEntries, resolverVars, appVars, stateVars, runs, builds, selections, downloadVars>>

CallDetermineOperation ==
  /\ classified = NotClassified
  /\ classified' = determineOperation(rawPath)
  /\ UNCHANGED <<rawPath, normalized, zipEntries, resolverVars, appVars, stateVars, runs, builds, selections, downloadVars>>

NextPaths == CallNormalizeFilePath \/ CallNormalizeFilePathAgain \/ CallDetermineOperation

SpecPaths == InitPaths /\ [][NextPaths]_vars

\* ------------------------------------------------------------- the component

Log(text, arg) == [text |-> text, arg |-> arg]

\* setDebugInfo(prev => [...prev, line]), for each line of lines in turn
RECURSIVE addDebugLog(_, _)
addDebugLog(prev, lines) ==
  IF lines = <<>> THEN prev
  ELSE addDebugLog(prev (+) SetToBag({Head(lines)}), Tail(lines))

EntryNamesOf(file) == [k \in 1..Len(file.zip.entries) |-> file.zip.entries[k].name]

NewStat(name) ==
  [name |-> name, fileCount |-> 0, insertCount |-> 0, updateCount |-> 0, files |-> <<>>]

\* A mutation of CountFile: an update is counted in fileCount and listed in
\* files, and in no operation counter.
CountFileForgettingUpdates(stat, link) ==
  LET operation == determineOperation(link)
  IN [stat EXCEPT
        !.fileCount = @ + 1,
        !.insertCount = IF operation = "insert" THEN @ + 1 ELSE @,
        !.files = Append(@, [name |-> FileNameOf(link), operation |-> operation])]

\* A mutation of CountFile: files.unshift, the file is put first in the list.
CountFilePrepending(stat, link) ==
  LET operation == determineOperation(link)
  IN [stat EXCEPT
        !.fileCount = @ + 1,
        !.insertCount = IF operation = "insert" THEN @ + 1 ELSE @,
        !.updateCount = IF operation = "insert" THEN @ ELSE @ + 1,
        !.files = <<[name |-> FileNameOf(link), operation |-> operation]>> \o @]

\* The bookkeeping of one resolved link, up to files.push.
CountFile(stat, link) ==
  LET operation == determineOperation(link)
  IN [stat EXCEPT
        !.fileCount = @ + 1,
        !.insertCount = IF operation = "insert" THEN @ + 1 ELSE @,
        !.updateCount = IF operation = "insert" THEN @ ELSE @ + 1,
        !.files = Append(@, [name |-> FileNameOf(link), operation |-> operation])]

\* A mutation of NotFoundLog: the link is skipped and no warning is logged for it.
NotFoundLogAsProcessing(link) == Log("Processing file", link)

\* addDebugLog(`Warning: File not found: ${link}`)
NotFoundLog(link) == Log("Warning: File not found", link)

\* The group name processFiles reads from a configuration object.
FolderNameOf(folderConfig) == folderConfig.ReviewText

LinksOf(folderConfig) == folderConfig.Links.items

\* The loop "for (const folderConfig of config)" from position (gi, li) up to
\* its next await (file.async, of the link found), its end, or a throw.
\* li = 0 stands before the group's first statement.
RECURSIVE RunLoop(_, _), LoopFrom(_, _)
LoopFrom(run, logs) ==
  LET config == run.json.json.items
  IN IF run.gi > Len(config)
       THEN [run |-> [run EXCEPT !.pc = "generate"], logs |-> logs, thrown |-> NoError]
     ELSE
       LET folderConfig == config[run.gi]
       IN IF run.li = 0
            THEN IF ~folderConfig.isObject
                   THEN RunLoop([run EXCEPT !.gi = @ + 1], logs)
                 ELSE
                   LET entered == [run EXCEPT !.li = 1,
                                              !.folderStat = NewStat(FolderNameOf(folderConfig))]
                       logged == Append(logs, Log("Processing folder", <<FolderNameOf(folderConfig)>>))
                   IN IF folderConfig.Links.tag = "number"
                        THEN [run |-> entered, logs |-> logged,
                              thrown |-> "folderConfig.Links is not iterable"]
                        ELSE RunLoop(entered, logged)
          ELSE IF run.li > Len(LinksOf(folderConfig))
            THEN RunLoop([run EXCEPT !.newFolderStats = Append(@, run.folderStat),
                                     !.gi = @ + 1, !.li = 0], logs)
          ELSE
            LET link == LinksOf(folderConfig)[run.li]
                logged == Append(logs, Log("Processing file", link))
                file == run.entryOf[link]
            IN IF file # 0
                 THEN [run |-> [run EXCEPT !.pc = "readEntry", !.found = file,
                                           !.folderStat = CountFile(@, link)],
                       logs |-> logged, thrown |-> NoError]
                 ELSE RunLoop([run EXCEPT !.li = @ + 1], Append(logged, NotFoundLog(link)))

\* The loop from the position of run: LoopFrom on the values of its arguments.
RunLoop(run, logs) ==
  CHOOSE res \in {LoopFrom(from, logged) : from \in {run}, logged \in {logs}} : TRUE

\* A mutation of AddFile: a file whose name is taken is not written again.
AddFileKeepingFirst(out, folderName, fileName, content) ==
  [folders |-> IF folderName = NoName THEN out.folders ELSE out.folders \cup {folderName},
   files |-> IF \E f \in out.files : f.folder = folderName /\ f.name = fileName
               THEN out.files
               ELSE out.files \cup {[folder |-> folderName, name |-> fileName,
                                     content |-> content]}]

\* A mutation of AddFile: a file of the same name is kept beside the new one.
AddFileBesides(out, folderName, fileName, content) ==
  [folders |-> IF folderName = NoName THEN out.folders ELSE out.folders \cup {folderName},
   files |-> out.files \cup {[folder |-> folderName, name |-> fileName, content |-> content]}]

\* processedZip.folder(folderName)?.file(fileName, content): folder(undefined)
\* is the archive's root; a file of the same name is overwritten.
AddFile(out, folderName, fileName, content) ==
  [folders |-> IF folderName = NoName THEN out.folders ELSE out.folders \cup {folderName},
   files |-> {f \in out.files : ~(f.folder = folderName /\ f.name = fileName)}
             \cup {[folder |-> folderName, name |-> fileName, content |-> content]}]

\* The links of a configuration file.
LinksIn(json) ==
  UNION {{LinksOf(json.json.items[g])[l] : l \in 1..Len(LinksOf(json.json.items[g]))} :
           g \in 1..Len(json.json.items)}

\* A mutation of NewRun: the accumulator is the one the run before wrote to.
NewRunSharingOutput(archive, json) ==
  [pc |-> "readJson", outcome |-> "none", archive |-> archive, json |-> json,
   entryOf |-> [link \in LinksIn(json) |-> findFileInZip(EntryNamesOf(archive), link)],
   gi |-> 1, li |-> 0, found |-> 0, folderStat |-> NewStat(NoName),
   newFolderStats |-> <<>>,
   out |-> IF runs = <<>> THEN [folders |-> {}, files |-> {}] ELSE runs[Len(runs)].out]

\* A run of processFiles on the files chosen at the click.  entryOf[link] is
\* findFileInZip(sourceZip, link): the files of a run do not change, so what
\* the resolver returns for each link of the run is fixed from the click on.
NewRun(archive, json) ==
  [pc |-> "readJson", outcome |-> "none", archive |-> archive, json |-> json,
   entryOf |-> [link \in LinksIn(json) |-> findFileInZip(EntryNamesOf(archive), link)],
   gi |-> 1, li |-> 0, found |-> 0, folderStat |-> NewStat(NoName),
   newFolderStats |-> <<>>, out |-> [folders |-> {}, files |-> {}]]

\* A mutation of ArrayCheck: a configuration that is no array is let through.
ArrayCheckSkipped(config) == NoError

\* if (!Array.isArray(config)) throw new Error('Invalid JSON format: expected an array')
ArrayCheck(config) ==
  IF config.isArray THEN NoError ELSE "Invalid JSON format: expected an array"

\* The message of the error JSZip.loadAsync rejects with on bytes that are no ZIP.
DecodeMessage == "Can't find end of central directory"

\* A mutation of ErrorMessageOf: the catch block surfaces its fallback message.
ErrorMessageFallback(thrown) == "An error occurred while processing the files"

\* error instanceof Error ? error.message : 'An error occurred ...': all that
\* processFiles throws is an Error.
ErrorMessageOf(thrown) == thrown

\* The effects of a stretch of processFiles that ended in r: at an await, or
\* thrown into the catch block.
Settle(r, res) ==
  IF res.thrown # NoError
    THEN /\ runs' = [runs EXCEPT ![r] = [res.run EXCEPT !.pc = "done", !.outcome = "error"]]
         /\ error' = ErrorMessageOf(res.thrown)
         /\ status' = "error"
         /\ debug' = addDebugLog(debug, Append(res.logs, Log("Error during processing",
                                                             <<ErrorMessageOf(res.thrown)>>)))
         /\ UNCHANGED folderStats
    ELSE /\ runs' = [runs EXCEPT ![r] = res.run]
         /\ debug' = addDebugLog(debug, res.logs)
         /\ folderStats' = IF res.run.pc = "generate"
                             THEN res.run.newFolderStats ELSE folderStats
         /\ UNCHANGED <<status, error>>

IsZipName(file) == EndsWith(ToLowerCase(file.name), <<".", "z", "i", "p">>)

HandleArchiveChange(file) ==
  /\ selections < MaxSelections
  /\ selections' = selections + 1
  /\ IF isValidArchive(file)
       THEN /\ archiveFile' = file
            /\ processedZip' = Null
            /\ fileTree' = <<>>
            /\ error' = NoError
            /\ debug' = addDebugLog(EmptyBag, << Log("Selected archive file", file.name),
                                                  Log("Building file tree for", file.name) >>)
            \* buildFileTree(file): awaits JSZip.loadAsync for a .zip name, and
            \* otherwise sets the empty tree at once.
            /\ builds' = IF IsZipName(file) THEN Append(builds, file) ELSE builds
            /\ UNCHANGED <<jsonFile, folderStats, status, runs>>
       ELSE /\ error' = "Please select a valid ZIP or TAR file"
            /\ debug' = addDebugLog(debug, <<Log("Invalid archive file selected", <<>>)>>)
            /\ UNCHANGED <<archiveFile, processedZip, fileTree, builds,
                           jsonFile, folderStats, status, runs>>
  /\ UNCHANGED <<downloadVars, resolverVars, pureVars>>

\* buildFileTree after JSZip.loadAsync: the tree is local until setFileTree.
BuildFileTreeFinish(k) ==
  LET file == builds[k]
      built == InsertEntries(<<>>, file.zip.entries, 1)
  IN /\ builds' = SubSeq(builds, 1, k - 1) \o SubSeq(builds, k + 1, Len(builds))
     /\ IF file.zip.ok /\ built.ok
          THEN /\ fileTree' = WithFolderStats(built.tree)
               /\ debug' = addDebugLog(debug, <<Log("Successfully built tree structure", <<>>)>>)
               /\ UNCHANGED error
          ELSE /\ debug' = addDebugLog(debug, <<Log("Error building file tree", <<>>)>>)
               /\ error' = "Failed to process file structure"
               /\ UNCHANGED fileTree
     /\ UNCHANGED <<downloadVars, resolverVars, pureVars, status, archiveFile, jsonFile, processedZip,
                    folderStats, runs, selections>>

HandleJsonChange(file) ==
  /\ selections < MaxSelections
  /\ selections' = selections + 1
  /\ IF file.type = "application/json"
       THEN /\ jsonFile' = file
            /\ processedZip' = Null
            /\ debug' = EmptyBag
            /\ error' = NoError
       ELSE /\ error' = "Please select a valid JSON file"
            /\ UNCHANGED <<jsonFile, processedZip, debug>>
  /\ UNCHANGED <<downloadVars, resolverVars, pureVars, status, archiveFile, folderStats, fileTree, runs, builds>>

\* A click on Process Files, which is enabled once both files are chosen,
\* up to "await jsonFile.text()".
ProcessFiles ==
  /\ Len(runs) < MaxRuns
  /\ archiveFile # Null
  /\ jsonFile # Null
  /\ status' = "processing"
  /\ debug' = addDebugLog(debug, <<Log("Starting file processing", <<>>)>>)
  /\ runs' = Append(runs, NewRun(archiveFile, jsonFile))
  /\ UNCHANGED <<downloadVars, resolverVars, pureVars, error, archiveFile, jsonFile, processedZip,
                 folderStats, fileTree, builds, selections>>

\* From JSON.parse to "await JSZip.loadAsync(archiveFile)".
ProcessFilesJsonRead(r) ==
  /\ runs[r].pc = "readJson"
  /\ Settle(r, [run |-> [runs[r] EXCEPT !.pc = "loadArchive"],
                logs |-> <<Log("JSON configuration loaded successfully", <<>>)>>,
                thrown |-> ArrayCheck(runs[r].json.json)])
  /\ UNCHANGED <<downloadVars, resolverVars, pureVars, archiveFile, jsonFile, processedZip, fileTree,
                 builds, selections>>

\* JSZip.loadAsync settles: it rejects what is no ZIP, and otherwise the loop starts.
ProcessFilesArchiveLoaded(r) ==
  /\ runs[r].pc = "loadArchive"
  /\ \E res \in {IF runs[r].archive.zip.ok
                     THEN RunLoop(runs[r], <<>>)
                     ELSE [run |-> runs[r], logs |-> <<>>, thrown |-> DecodeMessage]} :
        Settle(r, res)
  /\ UNCHANGED <<downloadVars, resolverVars, pureVars, archiveFile, jsonFile, processedZip, fileTree,
                 builds, selections>>

\* file.async settles: the file is written, and the loop goes on.
ProcessFilesEntryRead(r) ==
  LET run == runs[r]
      folderConfig == run.json.json.items[run.gi]
      link == LinksOf(folderConfig)[run.li]
      fileName == FileNameOf(link)
      content == run.archive.zip.entries[run.found].content
      written == [run EXCEPT !.out = AddFile(@, FolderNameOf(folderConfig), fileName, content),
                             !.found = 0, !.li = @ + 1]
  IN /\ run.pc = "readEntry"
     /\ \E res \in {RunLoop(written, <<Log("Successfully processed file", fileName)>>)} :
           Settle(r, res)
     /\ UNCHANGED <<downloadVars, resolverVars, pureVars, archiveFile, jsonFile, processedZip, fileTree,
                    builds, selections>>

\* A mutation of ProcessFilesGenerated: the blob is published and the status
\* is left as it is.
ProcessFilesGeneratedLeavingStatus(r) ==
  /\ runs[r].pc = "generate"
  /\ processedZip' = [out |-> runs[r].out, archive |-> runs[r].archive, json |-> runs[r].json]
  /\ debug' = addDebugLog(debug, <<Log("File processing completed successfully", <<>>)>>)
  /\ runs' = [runs EXCEPT ![r].pc = "done", ![r].outcome = "success"]
  /\ UNCHANGED <<downloadVars, resolverVars, pureVars, status, error, archiveFile, jsonFile, folderStats,
                 fileTree, builds, selections>>

\* generateAsync settles: the blob is published.
ProcessFilesGenerated(r) ==
  /\ runs[r].pc = "generate"
  /\ processedZip' = [out |-> runs[r].out, archive |-> runs[r].archive, json |-> runs[r].json]
  /\ status' = "success"
  /\ debug' = addDebugLog(debug, <<Log("File processing completed successfully", <<>>)>>)
  /\ runs' = [runs EXCEPT ![r].pc = "done", ![r].outcome = "success"]
  /\ UNCHANGED <<downloadVars, resolverVars, pureVars, error, archiveFile, jsonFile, folderStats, fileTree,
                 builds, selections>>

Init ==
  /\ listing = <<>>
  /\ searchPath = <<>>
  /\ resolved = NotCalled
  /\ InitComponent
  /\ InitPure

Next ==
  \/ \E file \in ArchiveChoices : HandleArchiveChange(file)
  \/ \E file \in JsonChoices : HandleJsonChange(file)
  \/ \E k \in 1..Len(builds) : BuildFileTreeFinish(k)
  \/ ProcessFiles
  \/ \E r \in 1..Len(runs) : ProcessFilesJsonRead(r)
  \/ \E r \in 1..Len(runs) : ProcessFilesArchiveLoaded(r)
  \/ \E r \in 1..Len(runs) : ProcessFilesEntryRead(r)
  \/ \E r \in 1..Len(runs) : ProcessFilesGenerated(r)

Spec == Init /\ [][Next]_vars

\* The continuation of run r after the await it is suspended at.
RunStep(r) ==
  /\ r <= Len(runs)
  /\ \/ ProcessFilesJsonRead(r)
     \/ ProcessFilesArchiveLoaded(r)
     \/ ProcessFilesEntryRead(r)
     \/ ProcessFilesGenerated(r)

\* The promises a run awaits (jsonFile.text(), JSZip.loadAsync, file.async,
\* generateAsync) settle, and the event loop runs the continuation of each.
FairSpec == Spec /\ \A r \in 1..MaxRuns : WF_vars(RunStep(r))

\* ------------------------------------------------------------- the download

\* White space removed by String.prototype.trim, as far as the pool holds it.
Whitespace == {" ", "\t"}

RECURSIVE TrimStart(_)
TrimStart(s) ==
  IF s # <<>> /\ Head(s) \in Whitespace THEN TrimStart(Tail(s)) ELSE s

RECURSIVE TrimEnd(_)
TrimEnd(s) ==
  IF s # <<>> /\ s[Len(s)] \in Whitespace THEN TrimEnd(SubSeq(s, 1, Len(s) - 1)) ELSE s

\* trim that leaves the white space at the end
TrimLeadingOnly(s) == TrimStart(s)

Trim(s) == TrimEnd(TrimStart(s))

\* What the user types in the Batch ID input.
BatchIds == { <<>>, <<" ", "\t">>, <<"\t", "7", " ", "8", " ">> }

DownloadPrefix ==
  <<"p","r","o","c","e","s","s","e","d","_","f","i","l","e","s","_">>
DownloadSuffix == <<".","z","i","p">>

BatchIdMissing == "Please enter a Batch ID before downloading"

\* The "Download Processed Files" button, rendered only with a blob.
HandleDownloadClick ==
  /\ modalSteps < MaxModalSteps
  /\ processedZip # Null
  /\ showBatchIdModal' = TRUE
  /\ modalSteps' = modalSteps + 1
  /\ UNCHANGED <<batchId, downloaded>>
  /\ UNCHANGED <<resolverVars, pureVars, appVars, stateVars, runs, builds, selections>>

\* onChange of the input of the modal
SetBatchId(value) ==
  /\ modalSteps < MaxModalSteps
  /\ showBatchIdModal
  /\ batchId' = value
  /\ modalSteps' = modalSteps + 1
  /\ UNCHANGED <<showBatchIdModal, downloaded>>
  /\ UNCHANGED <<resolverVars, pureVars, appVars, stateVars, runs, builds, selections>>

\* the Cancel button of the modal
CancelBatchIdModal ==
  /\ modalSteps < MaxModalSteps
  /\ showBatchIdModal
  /\ showBatchIdModal' = FALSE
  /\ modalSteps' = modalSteps + 1
  /\ UNCHANGED <<batchId, downloaded>>
  /\ UNCHANGED <<resolverVars, pureVars, appVars, stateVars, runs, builds, selections>>

\* The Download button of the modal, disabled while batchId.trim() is empty.
HandleDownload ==
  /\ modalSteps < MaxModalSteps
  /\ showBatchIdModal
  /\ Trim(batchId) # <<>>
  /\ modalSteps' = modalSteps + 1
  /\ IF processedZip # Null /\ Trim(batchId) # <<>>
       THEN /\ downloaded' = Append(downloaded,
                 [name |-> DownloadPrefix \o Trim(batchId) \o DownloadSuffix,
                  blob |-> processedZip])
            /\ showBatchIdModal' = FALSE
            /\ UNCHANGED error
       ELSE /\ error' = BatchIdMissing
            /\ UNCHANGED <<downloaded, showBatchIdModal>>
  /\ UNCHANGED <<batchId, status>>
  /\ UNCHANGED <<resolverVars, pureVars, stateVars, runs, builds, selections>>

NextDownload ==
  \/ Next
  \/ HandleDownloadClick
  \/ \E value \in BatchIds : SetBatchId(value)
  \/ CancelBatchIdModal
  \/ HandleDownload

\* The component with its download modal.
SpecDownload == Init /\ [][NextDownload]_vars

\* Files a browser hands over with a media type or a name of its own: c.ZIP and
\* e.tar without a media type, d and z with the media type of an archive and no
\* extension, the JSON file named zip.
OddFile(name, type) == [name |-> name, type |-> type, zip |-> NoZip, json |-> NoJson]
OddArchives ==
  { OddFile(<<"c", ".", "Z", "I", "P">>, ""),
    OddFile(<<"e", ".", "t", "a", "r">>, ""),
    OddFile(<<"d">>, "application/x-zip-compressed"),
    OddFile(<<"z">>, "application/zip"),
    OddFile(<<"z", "i", "p">>, "application/json") }

NextArchives ==
  \/ Next
  \/ \E file \in OddArchives : HandleArchiveChange(file)

\* The component, handed the files of OddArchives too.
SpecArchives == Init /\ [][NextArchives]_vars

\* ------------------------------------------------ specification of buildFileTree

\* Names of ZIP entries: files at three depths, directories, and b, which is
\* a file of d and the parent of d/b/a.
TreeNames ==
  { <<"a">>, <<"d", "/", "a">>, <<"d", "/", "b">>, <<"d", "/", "e", "/", "a">>,
    <<"d", "/">>, <<"d", "/", "e", "/">>, <<"d", "/", "b", "/", "a">>, <<"/", "c">> }

\* size is the length of the content; a directory entry has none.
TreeEntries ==
  {[name |-> n, content |-> "c", size |-> z] :
     n \in {m \in TreeNames : ~IsDir(m)}, z \in {0, 3}}
  \cup {[name |-> n, content |-> "", size |-> 0] : n \in {m \in TreeNames : IsDir(m)}}

InitTree ==
  /\ zipEntries \in SeqsUpTo(TreeEntries, MaxTreeEntries)
  /\ Distinct([k \in 1..Len(zipEntries) |-> zipEntries[k].name])
  /\ rawPath = <<>>
  /\ normalized = <<>>
  /\ classified = NotClassified
  /\ listing = <<>>
  /\ searchPath = <<>>
  /\ resolved = NotCalled
  /\ InitComponent

\* buildFileTree(file) on a file named .zip that JSZip reads as zipEntries.
CallBuildFileTree ==
  LET built == InsertEntries(<<>>, zipEntries, 1)
      started == addDebugLog(debug, <<Log("Building file tree for", <<>>)>>)
  IN /\ resolved = NotCalled
     /\ resolved' = [by |-> "tree", result |-> IF built.ok THEN 1 ELSE 0]
     /\ IF built.ok
          THEN /\ fileTree' = WithFolderStats(built.tree)
               /\ debug' = addDebugLog(started, <<Log("Successfully built tree structure", <<>>)>>)
               /\ UNCHANGED error
          ELSE /\ debug' = addDebugLog(started, <<Log("Error building file tree", <<>>)>>)
               /\ error' = "Failed to process file structure"
               /\ UNCHANGED fileTree
     /\ UNCHANGED <<downloadVars, listing, searchPath, pureVars, status, archiveFile, jsonFile,
                    processedZip, folderStats, runs, builds, selections>>

NextTree == CallBuildFileTree

SpecTree == InitTree /\ [][NextTree]_vars

\* ------------------------------------------------------ claims on the resolvers

Segments(path) == Split(normalizeFilePath(path))

\* The last Len(Segments(link)) segments of the entry are the link's segments.
TrailingSegmentsEqual(entryName, link) ==
  LET parts == Segments(entryName)
      searchParts == Segments(link)
      k == Len(searchParts)
  IN /\ Len(parts) >= k
     /\ SubSeq(parts, Len(parts) - k + 1, Len(parts)) = searchParts

ExactlyNamed(entryName, link) ==
  normalizeFilePath(entryName) = normalizeFilePath(link)

Called == resolved.by # "none"
Returned == resolved.result # 0

\* C1: whenever findFileInZip or findFileInTar returns an entry, the last k
\* segments of its normalized path are the k segments of the normalized link.
C1_ResolverSound ==
  Returned => TrailingSegmentsEqual(listing[resolved.result], searchPath)

\* C1 witness: a resolver returned an entry with more segments than the link.
C1_Witness ==
  /\ Returned
  /\ Len(Segments(listing[resolved.result])) > Len(Segments(searchPath))
  /\ Len(Segments(searchPath)) > 1

StoredNormalized ==
  \A i \in 1..Len(listing) : normalizeFilePath(listing[i]) = listing[i]

\* C2 (as claimed, on archives whose stored names are already normalized):
\* whenever a file entry's normalized path equals the normalized link, the
\* resolver returns an entry of that normalized path, whatever is listed first.
C2_ExactMatchHasPriority ==
  ( /\ Called
    /\ StoredNormalized
    /\ \E i \in 1..Len(listing) :
          ~IsDir(listing[i]) /\ ExactlyNamed(listing[i], searchPath) )
    => (Returned /\ ExactlyNamed(listing[resolved.result], searchPath))

\* C3 (as claimed): findFileInZip returns null only if no file entry's
\* normalized path equals the normalized link or suffix-matches it.
C3_ZipResolverComplete ==
  (resolved.by = "zip" /\ ~Returned)
    => ~\E i \in 1..Len(listing) :
           /\ ~IsDir(listing[i])
           /\ \/ ExactlyNamed(listing[i], searchPath)
              \/ TrailingSegmentsEqual(listing[i], searchPath)

\* The link has more segments than the entry, and its trailing segments are
\* all of the entry's segments.
LinkExtendsEntry(entryName, link) ==
  LET parts == Segments(entryName)
      searchParts == Segments(link)
      k == Len(parts)
  IN /\ Len(searchParts) > k
     /\ SubSeq(searchParts, Len(searchParts) - k + 1, Len(searchParts)) = parts

\* C4 (as claimed): a link with more segments than a file entry, whose trailing
\* segments are all of the entry's segments, resolves to such an entry.
C4_LinkWithExtraDirectoriesResolves ==
  (Called /\ \E i \in 1..Len(listing) :
                ~IsDir(listing[i]) /\ LinkExtendsEntry(listing[i], searchPath))
    => (Returned /\ LinkExtendsEntry(listing[resolved.result], searchPath))

\* C4 (amended): extra leading directories are tolerated in the archive only;
\* a link with more segments than an entry never resolves to that entry.
C4_LongerLinkNeverResolves ==
  \A i \in 1..Len(listing) :
     (Called /\ Len(Segments(searchPath)) > Len(Segments(listing[i])))
       => resolved.result # i

\* C4 witness: a resolver ran on a link that extends a file entry of the
\* archive by leading directories, and returned nothing.
C4_Witness ==
  /\ Called
  /\ ~Returned
  /\ \E i \in 1..Len(listing) :
        ~IsDir(listing[i]) /\ LinkExtendsEntry(listing[i], searchPath)

SuffixMatching == {i \in 1..Len(listing) : TrailingSegmentsEqual(listing[i], searchPath)}

\* C5 (as claimed): with no exact match and several file entries satisfying
\* the suffix match, the resolver returns the first of them in listing order.
C5_FirstListedWins ==
  ( /\ Called
    /\ ~\E i \in 1..Len(listing) : ExactlyNamed(listing[i], searchPath)
    /\ Cardinality(SuffixMatching) > 1
    /\ \A i \in SuffixMatching : ~IsDir(listing[i]) )
    => (Returned /\ \A i \in SuffixMatching : resolved.result <= i)

\* ------------------------------------------------------- claims on processFiles

StatsOf(run) == Append(run.newFolderStats, run.folderStat)

StatConsistent(stat) ==
  /\ stat.insertCount + stat.updateCount = stat.fileCount
  /\ stat.fileCount = Len(stat.files)

\* C6: at every point of every run, and in the published folderStats, each
\* GroupStats record has insertCount + updateCount = fileCount = the length of
\* its files list.
C6_GroupStatsConsistent ==
  /\ \A k \in 1..Len(folderStats) : StatConsistent(folderStats[k])
  /\ \A r \in 1..Len(runs) :
       \A k \in 1..Len(StatsOf(runs[r])) : StatConsistent(StatsOf(runs[r])[k])

\* A run is between two links of a group, having counted an update, and a
\* published record counts an insert and an update.
C6_Witness ==
  /\ \E r \in 1..Len(runs) :
       runs[r].pc = "readEntry" /\ runs[r].folderStat.updateCount = 1
  /\ \E k \in 1..Len(folderStats) :
       folderStats[k].insertCount = 1 /\ folderStats[k].updateCount = 1

Resolves(archive, link) == findFileInZip(EntryNamesOf(archive), link) # 0

ResolvedLinks(archive, links) == SelectSeq(links, LAMBDA l : Resolves(archive, l))

UpdateLinks(links) == SelectSeq(links, LAMBDA l : determineOperation(l) = "update")

Completed(run) == run.pc = "generate" \/ run.outcome = "success"

ConfigOf(run) == run.json.json.items

\* C7: a run that went through {"Review Test": G, "Links": L} emitted a
\* GroupStats named G, with fileCount the number of links of L that resolve,
\* updateCount the number of those that are updates, and insertCount the rest.
C7_ReviewTestEntryYieldsNamedStats ==
  \A r \in 1..Len(runs) :
    Completed(runs[r]) =>
      \A g \in 1..Len(ConfigOf(runs[r])) :
        LET e == ConfigOf(runs[r])[g]
            hits == ResolvedLinks(runs[r].archive, e.Links.items)
        IN (e.isObject /\ e.ReviewTest # NoName /\ e.Links.tag = "array") =>
             \E k \in 1..Len(runs[r].newFolderStats) :
               LET stat == runs[r].newFolderStats[k]
               IN /\ stat.name = e.ReviewTest
                  /\ stat.fileCount = Len(hits)
                  /\ stat.updateCount = Len(UpdateLinks(hits))
                  /\ stat.insertCount = Len(hits) - Len(UpdateLinks(hits))

InFlight(run) == run.outcome = "none"

\* C8: at no time are two processFiles runs in flight, that is, past their
\* onStatusChange('processing') and before their final success or error.
C8_SingleFlight ==
  Cardinality({r \in 1..Len(runs) : InFlight(runs[r])}) <= 1

WellFormed(e) ==
  /\ e.isObject
  /\ e.ReviewTest # NoName \/ e.ReviewText # NoName
  /\ e.Links.tag = "array"

\* C9: a run over a configuration array and a readable archive ends with
\* success, having emitted a GroupStats for each well-formed entry and for none
\* of the malformed ones, and no file outside a group's folder.
C9_MalformedEntriesSkipped ==
  \A r \in 1..Len(runs) :
    (runs[r].pc = "done" /\ runs[r].json.json.isArray /\ runs[r].archive.zip.ok) =>
      /\ runs[r].outcome = "success"
      /\ Len(runs[r].newFolderStats) = Len(SelectSeq(ConfigOf(runs[r]), WellFormed))
      /\ \A f \in runs[r].out.files :
           \E g \in 1..Len(ConfigOf(runs[r])) :
              /\ WellFormed(ConfigOf(runs[r])[g])
              /\ f.folder \in {ConfigOf(runs[r])[g].ReviewTest, ConfigOf(runs[r])[g].ReviewText}
              /\ f.folder # NoName

\* The groups of a configuration that processFiles enters: its objects.
ObjectsBefore(run) ==
  SelectSeq(SubSeq(ConfigOf(run), 1, run.gi - 1), LAMBDA e : e.isObject)

FilesOfLinks(links) ==
  [k \in 1..Len(links) |->
     [name |-> FileNameOf(links[k]), operation |-> determineOperation(links[k])]]

Unresolved(archive, links) == SelectSeq(links, LAMBDA l : ~Resolves(archive, l))

\* The unresolved links a run has gone past: those of the groups before gi,
\* and those before li in group gi.
RECURSIVE MissedInGroups(_, _)
MissedInGroups(run, g) ==
  IF g = 0 THEN <<>>
  ELSE LET e == ConfigOf(run)[g]
           upTo == IF g < run.gi THEN Len(e.Links.items) ELSE run.li - 1
           here == IF e.isObject /\ upTo > 0
                     THEN Unresolved(run.archive, SubSeq(e.Links.items, 1, upTo))
                     ELSE <<>>
       IN MissedInGroups(run, g - 1) \o here

Missed(run) ==
  IF run.pc \in {"readJson", "loadArchive"} \/ ~run.json.json.isArray \/ ~run.archive.zip.ok
    THEN <<>>
    ELSE MissedInGroups(run, IF run.gi > Len(ConfigOf(run)) THEN Len(ConfigOf(run)) ELSE run.gi)

OnlyNumberLinksThrow(run) ==
  (run.pc = "done" /\ run.json.json.isArray /\ run.archive.zip.ok
     /\ \A g \in 1..Len(ConfigOf(run)) : ConfigOf(run)[g].Links.tag # "number")
  => run.outcome = "success"

\* The records and the output of a run hold what its resolved links gave, and
\* nothing of a link that resolved to no entry.
UnresolvedLeaveNoTrace(run) ==
  /\ \A k \in 1..Len(run.newFolderStats) :
       LET hits == ResolvedLinks(run.archive, ObjectsBefore(run)[k].Links.items)
       IN /\ run.newFolderStats[k].files = FilesOfLinks(hits)
          /\ run.newFolderStats[k].fileCount = Len(hits)
          /\ run.newFolderStats[k].updateCount = Len(UpdateLinks(hits))
          /\ run.newFolderStats[k].insertCount = Len(hits) - Len(UpdateLinks(hits))
  /\ \A f \in run.out.files :
       \E g \in 1..Len(ConfigOf(run)) :
          \E l \in 1..Len(ConfigOf(run)[g].Links.items) :
             /\ Resolves(run.archive, ConfigOf(run)[g].Links.items[l])
             /\ f.name = FileNameOf(ConfigOf(run)[g].Links.items[l])

\* A step of a run logs one 'not found' line for each unresolved link it goes past.
UnresolvedAreLogged ==
  \A r \in 1..Len(runs) :
    runs'[r] # runs[r] =>
      \A l \in {MissingFile} :
         CopiesIn(NotFoundLog(l), debug') - CopiesIn(NotFoundLog(l), debug)
           = Len(SelectSeq(Missed(runs'[r]), LAMBDA m : m = l))
             - Len(SelectSeq(Missed(runs[r]), LAMBDA m : m = l))

\* C10: a link that resolves to no entry gives no output file and no entry of
\* a files list, leaves the counters of every group what the resolved links
\* make them, is logged as not found, and does not keep the run from success.
C10_UnresolvedLinkIsSkippedAndLogged ==
  /\ [](\A r \in 1..Len(runs) :
          UnresolvedLeaveNoTrace(runs[r]) /\ OnlyNumberLinksThrow(runs[r]))
  /\ [][UnresolvedAreLogged]_vars

\* A run went past a link with no entry, logged it, and ended in success.
C10_Witness ==
  \E r \in 1..Len(runs) :
    /\ runs[r].outcome = "success"
    /\ Missed(runs[r]) = <<MissingFile>>
    /\ BagIn(NotFoundLog(MissingFile), debug)
    /\ status = "success"

\* ------------------------------------------------------ claims C11 to C20

LastSegment(path) == Split(path)[Len(Split(path))]

\* A later link of the same group resolves too and is written under the same name.
OverwrittenLater(run, e, l) ==
  \E l2 \in (l + 1)..Len(e.Links.items) :
     /\ Resolves(run.archive, e.Links.items[l2])
     /\ FileNameOf(e.Links.items[l2]) = FileNameOf(e.Links.items[l])

\* C11: after a run, for every link of a named group that resolves to an
\* entry E, the output holds, in the group's directory, a file named by the
\* last segment of the normalized link, free of path separators, with the
\* bytes of E, unless a later link of the group overwrote it.
C11_RoundTrip ==
  \A r \in 1..Len(runs) :
    Completed(runs[r]) =>
      \A g \in 1..Len(ConfigOf(runs[r])) :
        LET e == ConfigOf(runs[r])[g]
        IN (e.isObject /\ FolderNameOf(e) # NoName /\ e.Links.tag = "array") =>
             \A l \in 1..Len(e.Links.items) :
               LET link == e.Links.items[l]
                   E == findFileInZip(EntryNamesOf(runs[r].archive), link)
                   name == LastSegment(normalizeFilePath(link))
               IN E # 0 =>
                    /\ \A i \in 1..Len(name) : name[i] \notin {SLASH, BACKSLASH}
                    /\ \E f \in runs[r].out.files :
                          /\ f.folder = FolderNameOf(e)
                          /\ f.name = name
                          /\ \/ f.content = runs[r].archive.zip.entries[E].content
                             \/ OverwrittenLater(runs[r], e, l)

\* C12: an accepted archive that is a TAR file (name ending in .tar, or type
\* application/x-tar) is read through the TAR reader: no run hands such an
\* archive to JSZip.loadAsync, and none fails on it with the ZIP decode error.
C12_TarArchiveReadByTarReader ==
  \A r \in 1..Len(runs) :
    isTarFile(runs[r].archive) =>
      /\ runs[r].pc # "loadArchive"
      /\ ~(runs[r].outcome = "error" /\ runs[r].json.json.isArray)

\* C13: normalizeFilePath is idempotent: on a path it returned, it returns the
\* same path.
C13_NormalizeIdempotent ==
  Len(normalized) = 2 => normalized[2] = normalized[1]

\* normalizeFilePath ran twice on a path the first run had to change.
C13_Witness ==
  /\ Len(normalized) = 2
  /\ normalized[1] # rawPath
  /\ normalized[1] # <<>>

\* The characters of s that are no separator, in order.
NonSeparators(s) == SelectSeq(s, LAMBDA c : c \notin {SLASH, BACKSLASH})

\* C14: normalize(p) holds no backslash, does not start with a slash, holds no
\* two slashes in a row, and keeps the other characters of p, in order.
C14_NormalizedShape ==
  Len(normalized) >= 1 =>
    LET n == normalized[1]
    IN /\ \A i \in 1..Len(n) : n[i] # BACKSLASH
       /\ n # <<>> => n[1] # SLASH
       /\ \A i \in 1..(Len(n) - 1) : ~(n[i] = SLASH /\ n[i + 1] = SLASH)
       /\ NonSeparators(n) = NonSeparators(rawPath)

\* A path with two backslashes, a leading separator and a doubled one was normalized.
C14_Witness ==
  /\ Len(normalized) >= 1
  /\ rawPath = <<"\\", "x", "/", "/", "\\">>
  /\ normalized[1] = <<"x", "/">>

\* The File nodes below a folder, at any depth.
FileDescendants(tree, folder) ==
  {k \in 1..Len(tree) : tree[k].type = "file" /\ IsProperPrefix(folder, tree[k].path)}

\* C15: in the tree buildFileTree sets, every folder, at every depth, has
\* fileStats.total = fileStats.empty + fileStats.nonEmpty, total the number of
\* File nodes among all its descendants, and empty the number of those of size 0.
C15_FolderStatsCountDescendants ==
  \A k \in 1..Len(fileTree) :
    fileTree[k].type = "folder" =>
      LET below == FileDescendants(fileTree, fileTree[k].path)
          stats == fileTree[k].fileStats
      IN /\ stats.total = stats.empty + stats.nonEmpty
         /\ stats.total = Cardinality(below)
         /\ stats.empty = Cardinality({f \in below : fileTree[f].size = 0})

\* A tree was set in which a folder has a file of its own and, one folder
\* down, an empty file.
C15_Witness ==
  /\ resolved.by = "tree"
  /\ \E k \in 1..Len(fileTree) :
       /\ fileTree[k].type = "folder"
       /\ fileTree[k].path = <<<<"d">>>>
       /\ fileTree[k].fileStats = [empty |-> 1, nonEmpty |-> 1, total |-> 2]
       /\ \E f \in FileDescendants(fileTree, fileTree[k].path) :
             Len(fileTree[f].path) = 3 /\ fileTree[f].size = 0

\* s holds word somewhere, letter case apart.
ContainsIgnoringCase(s, word) ==
  \E i \in 1..(Len(s) - Len(word) + 1) :
     \A j \in 1..Len(word) : ToLowerCase(<<s[i + j - 1]>>) = <<word[j]>>

HoldsUpdateOrModify(s) ==
  \/ ContainsIgnoringCase(s, <<"u", "p", "d", "a", "t", "e">>)
  \/ ContainsIgnoringCase(s, <<"m", "o", "d", "i", "f", "y">>)

\* C16: a link is classified update exactly when its normalized form holds
\* 'update' or 'modify', letter case apart, anywhere, and insert otherwise;
\* the raw link, which the code classifies, gives the same answer.
C16_ClassifiedByUpdateOrModify ==
  classified # NotClassified =>
    /\ classified = IF HoldsUpdateOrModify(normalizeFilePath(rawPath))
                      THEN "update" ELSE "insert"
    /\ HoldsUpdateOrModify(rawPath) <=> HoldsUpdateOrModify(normalizeFilePath(rawPath))

\* A link that normalization changes, with Modify in a directory segment,
\* was classified update.
C16_Witness ==
  /\ classified = "update"
  /\ rawPath = <<"\\", "M", "o", "d", "i", "f", "y", "/", "/", "x">>

\* The step is the last of run r, which fails with message and publishes nothing.
AbortsWith(r, message) ==
  /\ runs'[r].pc = "done"
  /\ runs'[r].outcome = "error"
  /\ status' = "error"
  /\ error' = message
  /\ processedZip' = processedZip
  /\ folderStats' = folderStats

NotArray(run) == ~run.json.json.isArray

\* C17: a run whose parsed configuration is no array never reaches the archive
\* decode step or anything after it, and the step that finds it out ends the
\* run: status error, a message surfaced, no blob and no statistics published.
C17_NonArrayConfigurationAborts ==
  /\ [](\A r \in 1..Len(runs) :
          NotArray(runs[r]) =>
            /\ runs[r].pc \in {"readJson", "done"}
            /\ runs[r].outcome # "success"
            /\ runs[r].newFolderStats = <<>>
            /\ runs[r].out.files = {})
  /\ [][\A r \in 1..Len(runs) :
          (NotArray(runs[r]) /\ runs'[r] # runs[r]) =>
             AbortsWith(r, "Invalid JSON format: expected an array")]_vars

\* A run over a configuration that is no array has ended, in error.
C17_Witness ==
  \E r \in 1..Len(runs) :
    /\ NotArray(runs[r])
    /\ runs[r].outcome = "error"
    /\ status = "error"
    /\ error = "Invalid JSON format: expected an array"
    /\ processedZip = Null

Undecodable(run) == run.json.json.isArray /\ ~run.archive.zip.ok

\* C18: a run whose archive cannot be decoded goes no further than the decode
\* step, and the step in which the decoding fails ends the run: status error,
\* the decode error's own message surfaced, no blob and no statistics set.
C18_DecodeErrorAborts ==
  /\ [](\A r \in 1..Len(runs) :
          Undecodable(runs[r]) =>
            /\ runs[r].pc \in {"readJson", "loadArchive", "done"}
            /\ runs[r].outcome # "success"
            /\ runs[r].out.files = {})
  /\ [][\A r \in 1..Len(runs) :
          (Undecodable(runs[r]) /\ runs[r].pc = "loadArchive" /\ runs'[r] # runs[r]) =>
             AbortsWith(r, DecodeMessage)]_vars

\* A run over an archive that is no ZIP has ended, in error.
C18_Witness ==
  \E r \in 1..Len(runs) :
    /\ Undecodable(runs[r])
    /\ runs[r].outcome = "error"
    /\ status = "error"
    /\ error = DecodeMessage

Ended(r) == r <= Len(runs) /\ runs[r].outcome \in {"success", "error"}

\* C19: every run that has started ends (from any moment on, there comes a
\* moment when all the runs started so far have ended), and the step that ends
\* a run sets the status to success or to error, the outcome of the run.
C19_StartedRunEnds ==
  /\ []<>(\A r \in 1..Len(runs) : Ended(r))
  /\ [][\A r \in 1..Len(runs) :
          (runs[r].outcome = "none" /\ runs'[r].outcome # "none") =>
             (status' \in {"success", "error"} /\ status' = runs'[r].outcome)]_vars

\* Two runs have ended, one in success and one in error.
C19_Witness ==
  /\ \E r \in 1..Len(runs) : runs[r].outcome = "success"
  /\ \E r \in 1..Len(runs) : runs[r].outcome = "error"
  /\ \A r \in 1..Len(runs) : Ended(r)
  /\ status \in {"success", "error"}

\* The object entries of the configuration of a run, in the array's order.
ObjectsOf(run) == SelectSeq(ConfigOf(run), LAMBDA e : e.isObject)

InConfigurationOrder(run) ==
  /\ Len(run.newFolderStats) = Len(ObjectsOf(run))
  /\ \A k \in 1..Len(run.newFolderStats) :
       /\ run.newFolderStats[k].name = FolderNameOf(ObjectsOf(run)[k])
       /\ run.newFolderStats[k].files =
            FilesOfLinks(ResolvedLinks(run.archive, LinksOf(ObjectsOf(run)[k])))

\* C20: the GroupStats list of a completed run has the object entries of the
\* configuration array in the array's order, the files of each are its links
\* that resolve, in the order of Links, and the published list is the list of
\* a completed run.
C20_StatsKeepConfigurationOrder ==
  /\ \A r \in 1..Len(runs) : Completed(runs[r]) => InConfigurationOrder(runs[r])
  /\ folderStats # <<>> =>
       \E r \in 1..Len(runs) : Completed(runs[r]) /\ folderStats = runs[r].newFolderStats

\* A run listed two files in one group, and the published list has two groups,
\* G, whose second link resolves to nothing, and then H.
C20_Witness ==
  /\ \E r \in 1..Len(runs) :
       /\ Completed(runs[r])
       /\ Len(runs[r].newFolderStats) = 1
       /\ [k \in 1..2 |-> runs[r].newFolderStats[1].files[k].name]
            = <<FileNameOf(UpdateFile), FileNameOf(OtherFile)>>
  /\ Len(folderStats) = 2
  /\ folderStats[1].name = "G" /\ folderStats[2].name = "H"
  /\ Len(folderStats[1].files) = 1
  /\ Len(LinksOf(ObjectsOf(runs[Len(runs)])[1])) = 2

\* ------------------------------------------------------ claims C21 to C30

\* What a run writes for the group e: one file for each link that resolves, in
\* the order of Links, with the bytes of the entry the link resolves to.
GroupWrites(run, e) ==
  LET hits == ResolvedLinks(run.archive, LinksOf(e))
  IN [k \in 1..Len(hits) |->
        [name |-> FileNameOf(hits[k]),
         content |-> run.archive.zip.entries[
                       findFileInZip(EntryNamesOf(run.archive), hits[k])].content]]

OnlyGroupNamed(run, g) ==
  \A h \in 1..Len(ConfigOf(run)) :
     (h # g /\ ConfigOf(run)[h].isObject) =>
        FolderNameOf(ConfigOf(run)[h]) # FolderNameOf(ConfigOf(run)[g])

\* C21: when two links of a group resolve and have the same file name, the
\* output of the run holds one file of that name in the group's directory,
\* with the bytes of the entry of the later link.
C21_LastWriteWins ==
  \A r \in 1..Len(runs) :
    Completed(runs[r]) =>
      \A g \in 1..Len(ConfigOf(runs[r])) :
        LET e == ConfigOf(runs[r])[g]
            writes == GroupWrites(runs[r], e)
        IN (e.isObject /\ OnlyGroupNamed(runs[r], g)) =>
             \A i, j \in 1..Len(writes) :
               (i < j /\ writes[i].name = writes[j].name
                  /\ \A k \in (j + 1)..Len(writes) : writes[k].name # writes[j].name) =>
                 {f \in runs[r].out.files :
                     f.folder = FolderNameOf(e) /\ f.name = writes[j].name}
                   = {[folder |-> FolderNameOf(e), name |-> writes[j].name,
                       content |-> writes[j].content]}

\* A run on a.zip and [{"Review Text": "G", "Links": ["o/b", "y/b"]}] is over:
\* G/b has the bytes of y/b, which are not those of x/o/b.
C21_Witness ==
  \E r \in 1..Len(runs) :
    /\ Completed(runs[r])
    /\ runs[r].json = JsonSameName
    /\ Len(GroupWrites(runs[r], ConfigOf(runs[r])[1])) = 2
    /\ GroupWrites(runs[r], ConfigOf(runs[r])[1])[1].content = "c2"
    /\ [folder |-> "G", name |-> <<"b">>, content |-> "c3"] \in runs[r].out.files

\* The characters of a text that are not white space, by position.
Inked(s) == {i \in 1..Len(s) : s[i] \notin Whitespace}

\* A text without the white space before its first and after its last other
\* character.
Core(s) ==
  IF Inked(s) = {} THEN <<>>
  ELSE SubSeq(s, CHOOSE i \in Inked(s) : \A j \in Inked(s) : i <= j,
                 CHOOSE i \in Inked(s) : \A j \in Inked(s) : j <= i)

CanDownload == processedZip # Null /\ Inked(batchId) # {}

\* C22: a file is saved exactly by a press of Download made while a blob is
\* available and the batch identifier has a character other than white space;
\* the file saved is that blob under the name processed_files_<batch id without
\* its surrounding white space>.zip; a press of Download made otherwise saves
\* nothing and shows the message asking for a Batch ID.
C22_DownloadNeedsBlobAndBatchId ==
  /\ [][downloaded' # downloaded =>
          /\ HandleDownload
          /\ CanDownload
          /\ downloaded' = Append(downloaded,
                 [name |-> DownloadPrefix \o Core(batchId) \o DownloadSuffix,
                  blob |-> processedZip])]_vars
  /\ [][HandleDownload =>
          IF CanDownload THEN downloaded' # downloaded
          ELSE downloaded' = downloaded /\ error' = BatchIdMissing]_vars

\* A blob was saved under a batch identifier typed with white space around it.
C22_Witness ==
  /\ downloaded # <<>>
  /\ batchId = <<"\t", "7", " ", "8", " ">>
  /\ downloaded[1].name = DownloadPrefix \o <<"7", " ", "8">> \o DownloadSuffix
  /\ downloaded[1].blob # Null

\* Download was pressed after a selection had cleared the blob.
C22_WitnessRefused ==
  /\ showBatchIdModal
  /\ processedZip = Null
  /\ error = BatchIdMissing
  /\ downloaded = <<>>

ArchiveTypes == {"application/zip", "application/x-zip-compressed", "application/x-tar"}

\* The name ends in the extension, in letters of either case.
HasExtension(name, cases) ==
  /\ Len(name) >= Len(cases)
  /\ \A i \in 1..Len(cases) : name[Len(name) - Len(cases) + i] \in cases[i]

Acceptable(file) ==
  \/ file.type \in ArchiveTypes
  \/ HasExtension(file.name, << {"."}, {"z", "Z"}, {"i", "I"}, {"p", "P"} >>)
  \/ HasExtension(file.name, << {"."}, {"t", "T"}, {"a", "A"}, {"r", "R"} >>)

ArchiveRejected == "Please select a valid ZIP or TAR file"

\* C23: the selection of an archive makes it the selected archive exactly when
\* its media type is one of the three archive types or its lower-cased name ends
\* in .zip or .tar; any other selection shows the error message and leaves the
\* selected archive and the output blob as they were.
C23_ArchiveAcceptedByTypeOrName ==
  [][\A file \in ArchiveChoices \cup OddArchives :
       HandleArchiveChange(file) =>
         IF Acceptable(file)
           THEN archiveFile' = file /\ error' = NoError
           ELSE /\ error' = ArchiveRejected
                /\ archiveFile' = archiveFile
                /\ processedZip' = processedZip]_vars

\* A selection was rejected while an archive was selected and a blob available.
C23_Witness ==
  /\ error = ArchiveRejected
  /\ archiveFile = ZipA
  /\ processedZip # Null
  /\ selections = 3

\* c.ZIP, of no media type, was accepted.
C23_WitnessByName ==
  /\ archiveFile # Null
  /\ archiveFile.type = ""
  /\ archiveFile.name = <<"c", ".", "Z", "I", "P">>

\* The files a run writes: for each object of its configuration and each link of
\* it that resolves in its archive, the entry found, under the link's file name
\* in the group's folder.
WritesIn(run, e) ==
  LET writes == GroupWrites(run, e)
  IN { [folder |-> FolderNameOf(e), name |-> writes[k].name, content |-> writes[k].content] :
         k \in 1..Len(writes) }

WritesOf(run) ==
  UNION { WritesIn(run, ConfigOf(run)[g]) :
            g \in {h \in 1..Len(ConfigOf(run)) : ConfigOf(run)[h].isObject} }

\* C24: whatever the other runs did meanwhile, the accumulator of a run past
\* its loop holds only files that run wrote, one for each place the run wrote
\* to, and the blob published is the accumulator of a run that succeeded.
C24_AccumulatorIsTheRunsOwn ==
  /\ \A r \in 1..Len(runs) :
       Completed(runs[r]) =>
         LET written == WritesOf(runs[r])
         IN /\ runs[r].out.files \subseteq written
            /\ \A w \in written :
                 \E f \in runs[r].out.files : f.folder = w.folder /\ f.name = w.name
  /\ processedZip # Null =>
       \E r \in 1..Len(runs) :
          /\ runs[r].outcome = "success"
          /\ processedZip.out = runs[r].out

\* Two runs on different configurations both await generateAsync, each with
\* files the other has not.
C24_Witness ==
  /\ Len(runs) = 2
  /\ runs[1].pc = "generate" /\ runs[2].pc = "generate"
  /\ runs[1].json # runs[2].json
  /\ runs[1].out.files \ runs[2].out.files # {}
  /\ runs[2].out.files \ runs[1].out.files # {}

\* The non-empty segments of an entry path.
NamesOf(path) == SelectSeq(Split(path), LAMBDA part : part # <<>>)

FileEntryPaths ==
  {NamesOf(zipEntries[k].name) : k \in {j \in 1..Len(zipEntries) : ~IsDir(zipEntries[j].name)}}

\* C25: buildFileTree ends without an error, and the tree it sets has, for each
\* entry that is no directory marker, exactly one File node at the entry's
\* non-empty segments, and a Folder node at each proper prefix of them.
C25_TreeComplete ==
  resolved.by = "tree" =>
    /\ resolved.result = 1
    /\ error = NoError
    /\ \A path \in FileEntryPaths :
         /\ Cardinality({k \in 1..Len(fileTree) :
                           fileTree[k].path = path /\ fileTree[k].type = "file"}) = 1
         /\ \A n \in 1..(Len(path) - 1) :
              \E k \in 1..Len(fileTree) :
                 fileTree[k].path = SubSeq(path, 1, n) /\ fileTree[k].type = "folder"

\* Two nodes with the same parent.
Siblings(tree, j, k) ==
  /\ j # k
  /\ Len(tree[j].path) = Len(tree[k].path)
  /\ SubSeq(tree[j].path, 1, Len(tree[j].path) - 1) =
       SubSeq(tree[k].path, 1, Len(tree[k].path) - 1)

NameOfNode(node) == node.path[Len(node.path)]

\* Entry j of the listing names the node or something below it.
NamedBy(node, j) ==
  /\ Len(NamesOf(zipEntries[j].name)) >= Len(node.path)
  /\ SubSeq(NamesOf(zipEntries[j].name), 1, Len(node.path)) = node.path

SeenInListing(node) == \E j \in 1..Len(zipEntries) : NamedBy(node, j)

FirstSeen(node) ==
  CHOOSE j \in 1..Len(zipEntries) :
    NamedBy(node, j) /\ \A i \in 1..(j - 1) : ~NamedBy(node, i)

\* C26: in the tree buildFileTree sets, siblings have different names and stand
\* in the order in which the listing first names them, and the path stored in a
\* node is the path stored in its parent, a slash and the node's name, or the
\* name alone at the top.
C26_SiblingsDistinctOrderedAndPathsJoined ==
  \A k \in 1..Len(fileTree) :
    /\ SeenInListing(fileTree[k])
    /\ \A j \in 1..Len(fileTree) :
         Siblings(fileTree, j, k) =>
           /\ NameOfNode(fileTree[j]) # NameOfNode(fileTree[k])
           /\ j < k <=> FirstSeen(fileTree[j]) < FirstSeen(fileTree[k])
    /\ IF Len(fileTree[k].path) = 1
         THEN fileTree[k].currentPath = NameOfNode(fileTree[k])
         ELSE \E parent \in 1..Len(fileTree) :
                /\ fileTree[parent].path = SubSeq(fileTree[k].path, 1, Len(fileTree[k].path) - 1)
                /\ fileTree[k].currentPath =
                     fileTree[parent].currentPath \o <<SLASH>> \o NameOfNode(fileTree[k])

\* A tree was set with the siblings b and a of d, in the order of the listing,
\* and d/b stored as the path of b.
C26_Witness ==
  /\ resolved.by = "tree"
  /\ \E j, k \in 1..Len(fileTree) :
       /\ j < k
       /\ fileTree[j].path = << <<"d">>, <<"b">> >>
       /\ fileTree[k].path = << <<"d">>, <<"a">> >>
       /\ fileTree[j].currentPath = <<"d", "/", "b">>

\* C27: the blob available for download was made by a run on the archive and
\* the JSON file that are selected now.
C27_BlobIsOfSelectedFiles ==
  processedZip # Null =>
    /\ processedZip.archive = archiveFile
    /\ processedZip.json = jsonFile

\* The tree of an archive: that of its entries when it is a readable .zip file
\* whose entries make a tree, and the empty tree otherwise.
TreeOf(file) ==
  LET built == InsertEntries(<<>>, file.zip.entries, 1)
  IN IF IsZipName(file) /\ file.zip.ok /\ built.ok
       THEN WithFolderStats(built.tree) ELSE <<>>

\* C28: when no buildFileTree call is pending, the tree displayed is the tree
\* of the selected archive.
C28_TreeIsOfSelectedArchive ==
  (builds = <<>> /\ archiveFile # Null) => fileTree = TreeOf(archiveFile)

\* C29: while the status is success a blob is available for download, and the
\* group statistics published are those of the run the blob comes from.
C29_SuccessMeansBlobAndItsStats ==
  status = "success" =>
    /\ processedZip # Null
    /\ \E r \in 1..Len(runs) :
          /\ runs[r].outcome = "success"
          /\ processedZip.out = runs[r].out
          /\ processedZip.archive = runs[r].archive
          /\ processedZip.json = runs[r].json
          /\ folderStats = runs[r].newFolderStats

\* The (group name, file name) pairs of the resolved links of a run.
PairsOf(run) == {<<w.folder, w.name>> : w \in WritesOf(run)}

RECURSIVE SumFileCount(_, _)
SumFileCount(stats, k) ==
  IF k = 0 THEN 0 ELSE stats[k].fileCount + SumFileCount(stats, k - 1)

RECURSIVE ResolvedCount(_, _)
ResolvedCount(run, g) ==
  IF g = 0 THEN 0
  ELSE ResolvedCount(run, g - 1) +
       (IF ConfigOf(run)[g].isObject
          THEN Len(ResolvedLinks(run.archive, LinksOf(ConfigOf(run)[g]))) ELSE 0)

\* C30: the output of a run that ended in success holds as many files as its
\* resolved links have distinct (group name, file name) pairs; that is at most
\* the sum of fileCount over the run's GroupStats, and equal to it exactly when
\* no two resolved links have the same pair.
C30_OutputCountsDistinctPairs ==
  \A r \in 1..Len(runs) :
    runs[r].outcome = "success" =>
      LET files == Cardinality(runs[r].out.files)
          pairs == Cardinality(PairsOf(runs[r]))
          total == SumFileCount(runs[r].newFolderStats, Len(runs[r].newFolderStats))
          links == ResolvedCount(runs[r], Len(ConfigOf(runs[r])))
      IN /\ files = pairs
         /\ files <= total
         /\ files = total <=> links = pairs

\* A run succeeded with two resolved links of one pair: one file, fileCount 2.
C30_Witness ==
  \E r \in 1..Len(runs) :
     /\ runs[r].outcome = "success"
     /\ Cardinality(runs[r].out.files) = 1
     /\ SumFileCount(runs[r].newFolderStats, Len(runs[r].newFolderStats)) = 2

\* A run succeeded with two resolved links of different pairs: two files.
C30_WitnessDistinct ==
  \E r \in 1..Len(runs) :
     /\ runs[r].outcome = "success"
     /\ Cardinality(runs[r].out.files) = 2
     /\ SumFileCount(runs[r].newFolderStats, Len(runs[r].newFolderStats)) = 2
====
